---- MODULE Spec2Model ----
(***************************************************************************)
(* Verification model of the BitScan front end.                            *)
(*                                                                         *)
(*   Spec      the presentation shell (App): address form, analysis        *)
(*             request, scan history and its persisted copy, modals,       *)
(*             theme, PDF export workflow.                                 *)
(*   SpecStored  the same shell, started over any parseable content of     *)
(*             the persisted history item, not only what the shell wrote.  *)
(*   SpecUI    the shell's form, modals and theme around one analysis      *)
(*             request.                                                    *)
(*   SpecHist  saveToHistory as a function of (history, result).           *)
(*   SpecAgg   the charts' data shaping (chartData / displayData /         *)
(*             totals) as a function of (points, granularity).             *)
(*   SpecChart one mounted chart component: timeframe, presets, the        *)
(*             fetch effect and its in-flight requests.                    *)
(*   SpecTheme the shell's theme flag over restarts, with the persisted    *)
(*             theme item.                                                 *)
(*   SpecNet   the API client's response interceptor as a function of the  *)
(*             failure.                                                    *)
(*   SpecLoad  the history load effect on any stored string.               *)
(*   SpecDoc   the report generators (two PDF layouts, one workbook),      *)
(*             statement group by statement group.                         *)
(*   SpecChartLive  SpecChart with every request eventually settling.      *)
(*   SpecReport  the shell's Download PDF handler together with the        *)
(*             generator it calls, a drawing call of which may throw.      *)
(*   SpecDeb   the debounce utility over schedules of calls and ticks.     *)
(*   SpecCard  the metric cards of the PDF reports as a function of the    *)
(*             analysis.                                                   *)
(*                                                                         *)
(* Amounts are integers (BTC amounts in arbitrary integral units); the     *)
(* rounding of IEEE doubles is not modelled.                               *)
(***************************************************************************)
EXTENDS Integers, Sequences, FiniteSets, TLC

(***************************************************************************)
(* Bounds                                                                  *)
(***************************************************************************)
\* number of distinct wallet addresses in the pure history model
NAddr == 11

(***************************************************************************)
(* Program constants                                                       *)
(***************************************************************************)
\* saveToHistory: .slice(0, 10)
HistoryCap == 10

\* the empty string of the address text field
NoAddr == 0
\* addresses the shell's user types or picks from the sample chips
TypedAddrs == {1, 2}
\* addresses whose analysis reports no on-chain activity (isEmptyWallet)
EmptyWallets == {2}

\* error === null
NoError == "null"
\* messages a rejected analyzeAddress carries (services/api.ts interceptor)
RejectMessages == {"Rate limit exceeded.", "Network error."}

(***************************************************************************)
(* Analysis results and the history list                                   *)
(***************************************************************************)
\* an AnalysisResponse: its address and which scan produced it (its timestamp):
\* StoredVer for a result of an earlier session, FreshVer for one of this session
Result(a, v) == [address |-> a, ver |-> v]
StoredVer == 0
FreshVer == 1
\* analysis === null
NullResult == Result(NoAddr, 0)

\* scanHistory.filter(item => item.address !== a)
RECURSIVE FilterOut(_, _)
FilterOut(h, a) ==
    IF h = << >> THEN << >>
    ELSE IF Head(h).address # a THEN << Head(h) >> \o FilterOut(Tail(h), a)
    ELSE FilterOut(Tail(h), a)

\* arr.slice(0, n)
SliceFront(s, n) == IF Len(s) <= n THEN s ELSE SubSeq(s, 1, n)

\* saveToHistory without the filter: a re-scanned address is stored twice
saveToHistoryNoFilter(hist, r) == SliceFront(<< r >> \o hist, HistoryCap)

\* newHistory of saveToHistory
saveToHistory(hist, r) ==
    SliceFront(<< r >> \o FilterOut(hist, r.address), HistoryCap)

\* no two entries of a history have the same address
UniqueAddrs(h) == \A i, j \in 1..Len(h) : h[i].address = h[j].address => i = j

(***************************************************************************)
(* localStorage item 'bitscan_history'                                     *)
(***************************************************************************)
\* getItem returns null
Absent == [present |-> FALSE, parses |-> FALSE, json |-> << >>]
\* a stored string JSON.parse throws on
Garbage == [present |-> TRUE, parses |-> FALSE, json |-> << >>]
\* setItem storing the text of an empty list whatever the history is
StringifyEmpty(h) == [present |-> TRUE, parses |-> TRUE, json |-> << >>]
\* JSON.stringify(h): a string that JSON.parse turns back into h
Stringify(h) == [present |-> TRUE, parses |-> TRUE, json |-> h]

\* a history of n earlier scans of the addresses first, first+1, ...
StoredRun(first, n) == [i \in 1..n |-> Result(first + i - 1, StoredVer)]

\* what the browser holds under the key when the shell starts: nothing, a
\* history an earlier session wrote, or a string that does not parse
StoredAtStartup == { Absent, Stringify(StoredRun(1, 2)), Garbage }

\* stored strings that parse to a list saveToHistory did not write (edited
\* in the browser, written by another script of the origin): an address
\* repeated, more entries than the cap
ForeignStored ==
    { Stringify(<< Result(1, StoredVer), Result(1, StoredVer) >>),
      Stringify(StoredRun(1, HistoryCap + 1)) }

(***************************************************************************)
(* State                                                                   *)
(***************************************************************************)
VARIABLES
    \* ---- presentation shell (App) ----
    phase,          \* "init" before the mount effects ran, "mounted", "unmounted"
    isDarkMode, address, analysis, loading, showResults, scanHistory,
    showHistory, showFAQ, showApproach, showCharts, generatingPdf, error,
    storage,        \* localStorage item 'bitscan_history'
    analyzeReqs,    \* handleAnalyze calls suspended at their await
    showTimers,     \* a setTimeout(() => setShowResults(true), 500) is pending
    pdfJobs,        \* Download-PDF click handlers between start and finally
    \* ---- saveToHistory as a function (SpecHist) ----
    hPc, hHistory, hResult, hNew,
    \* ---- chart data shaping as a function (SpecAgg) ----
    aPc, aKind, aGranularity, aPoints, aChartData, aDisplayData, aTotals,
    \* ---- one chart component (SpecChart) ----
    cPhase,         \* "off", "init" (rendered, effects not yet run), "mounted", "unmounted"
    cKind,          \* which chart component
    cAddress,       \* the address prop
    timeframe, activePreset,
    cData,          \* the data state: what setData stored last
    cLoading, cError,
    cReqs,          \* getWalletTimeSeries calls in flight, with their effect's closure
    cIssued,        \* requests issued so far
    cOutcome        \* what the last continuation run while mounted received

shellVars ==
    << phase, isDarkMode, address, analysis, loading, showResults, scanHistory,
       showHistory, showFAQ, showApproach, showCharts, generatingPdf, error,
       storage, analyzeReqs, showTimers, pdfJobs >>

histVars == << hPc, hHistory, hResult, hNew >>
aggVars == << aPc, aKind, aGranularity, aPoints, aChartData, aDisplayData, aTotals >>

chartVars ==
    << cPhase, cKind, cAddress, timeframe, activePreset, cData, cLoading, cError,
       cReqs, cIssued, cOutcome >>


(***************************************************************************)
(* Presentation shell                                                      *)
(***************************************************************************)
isEmptyWallet(a) == a # NullResult /\ a.address \in EmptyWallets

\* the effect on [isEmptyWallet]: setShowCharts(false) when it becomes true
EmptyWalletEffect(old, new, sc) ==
    IF isEmptyWallet(new) /\ ~isEmptyWallet(old) THEN FALSE ELSE sc

\* the Analyze button without the loading check
AnalyzeDisabledNoLoading == address = NoAddr

\* Analyze button: disabled={loading || !address}
AnalyzeDisabled == loading \/ address = NoAddr

\* the Download PDF button without the in-progress check
PdfDisabledNoFlag == isEmptyWallet(analysis)

\* Download PDF button: rendered with the results card, disabled={generatingPdf || isEmptyWallet}
PdfDisabled == generatingPdf \/ isEmptyWallet(analysis)

\* useState initial values of App
ShellStart ==
    /\ phase = "init"
    /\ isDarkMode = TRUE
    /\ address = NoAddr
    /\ analysis = NullResult
    /\ loading = FALSE
    /\ showResults = FALSE
    /\ scanHistory = << >>
    /\ showHistory = FALSE
    /\ showFAQ = FALSE
    /\ showApproach = FALSE
    /\ showCharts = FALSE
    /\ generatingPdf = FALSE
    /\ error = NoError
    /\ analyzeReqs = << >>
    /\ showTimers = FALSE
    /\ pdfJobs = << >>

\* the mount effect: load scan history from localStorage
LoadHistory ==
    /\ phase = "init"
    /\ phase' = "mounted"
    /\ IF ~storage.present
         THEN UNCHANGED << scanHistory, storage >>
         ELSE IF storage.parses
           THEN scanHistory' = storage.json /\ UNCHANGED storage
           ELSE storage' = Absent /\ UNCHANGED scanHistory
    /\ UNCHANGED << isDarkMode, address, analysis, loading, showResults,
                    showHistory, showFAQ, showApproach, showCharts, generatingPdf,
                    error, analyzeReqs, showTimers, pdfJobs >>

\* the page is reloaded: every in-memory value and pending continuation is
\* gone, localStorage stays
Reload ==
    /\ phase # "init"
    /\ phase' = "init"
    /\ isDarkMode' = TRUE
    /\ address' = NoAddr
    /\ analysis' = NullResult
    /\ loading' = FALSE
    /\ showResults' = FALSE
    /\ scanHistory' = << >>
    /\ showHistory' = FALSE
    /\ showFAQ' = FALSE
    /\ showApproach' = FALSE
    /\ showCharts' = FALSE
    /\ generatingPdf' = FALSE
    /\ error' = NoError
    /\ analyzeReqs' = << >>
    /\ showTimers' = FALSE
    /\ pdfJobs' = << >>
    /\ UNCHANGED storage

\* the App component is removed by its host; suspended handlers stay alive
Unmount ==
    /\ phase = "mounted"
    /\ phase' = "unmounted"
    /\ UNCHANGED << isDarkMode, address, analysis, loading, showResults,
                    scanHistory, showHistory, showFAQ, showApproach, showCharts,
                    generatingPdf, error, storage, analyzeReqs, showTimers,
                    pdfJobs >>

\* address TextField onChange / sample chip onClick
SetAddress ==
    /\ phase = "mounted"
    /\ \E a \in TypedAddrs \cup {NoAddr} : address' = a
    /\ address' # address
    /\ UNCHANGED << phase, isDarkMode, analysis, loading, showResults,
                    scanHistory, showHistory, showFAQ, showApproach, showCharts,
                    generatingPdf, error, storage, analyzeReqs, showTimers,
                    pdfJobs >>

\* handleAnalyze up to its await; the closure keeps the address and the
\* scanHistory of the render the click happened in
handleAnalyze ==
    /\ phase = "mounted"
    /\ ~AnalyzeDisabled
    /\ loading' = TRUE
    /\ showResults' = FALSE
    /\ error' = NoError
    /\ analyzeReqs' = Append(analyzeReqs,
                             [address |-> address, scanHistory |-> scanHistory,
                              ver |-> FreshVer])
    /\ UNCHANGED << phase, isDarkMode, address, analysis, scanHistory,
                    showHistory, showFAQ, showApproach, showCharts, generatingPdf,
                    storage, showTimers, pdfJobs >>

RemoveAt(s, i) == SubSeq(s, 1, i - 1) \o SubSeq(s, i + 1, Len(s))

\* handleAnalyze after analyzeAddress resolved: setAnalysis, saveToHistory,
\* setTimeout, finally setLoading(false)
AnalyzeResolve ==
    \E i \in 1..Len(analyzeReqs) :
      LET req == analyzeReqs[i]
          result == Result(req.address, req.ver)
          newHistory == saveToHistory(req.scanHistory, result)
      IN  /\ analyzeReqs' = RemoveAt(analyzeReqs, i)
          /\ analysis' = result
          /\ showCharts' = EmptyWalletEffect(analysis, result, showCharts)
          /\ scanHistory' = newHistory
          /\ storage' = Stringify(newHistory)
          /\ showTimers' = TRUE
          /\ loading' = FALSE
          /\ UNCHANGED << phase, isDarkMode, address, showResults, showHistory,
                          showFAQ, showApproach, generatingPdf, error, pdfJobs >>

\* handleAnalyze after analyzeAddress rejected: setError, finally setLoading(false)
AnalyzeReject ==
    \E i \in 1..Len(analyzeReqs), msg \in RejectMessages :
          /\ analyzeReqs' = RemoveAt(analyzeReqs, i)
          /\ error' = msg
          /\ loading' = FALSE
          /\ UNCHANGED << phase, isDarkMode, address, analysis, showResults,
                          scanHistory, showHistory, showFAQ, showApproach,
                          showCharts, generatingPdf, storage, showTimers, pdfJobs >>

\* the 500 ms timer of handleAnalyze fires
ShowResultsTimeout ==
    /\ showTimers
    /\ showTimers' = FALSE
    /\ showResults' = TRUE
    /\ UNCHANGED << phase, isDarkMode, address, analysis, loading, scanHistory,
                    showHistory, showFAQ, showApproach, showCharts, generatingPdf,
                    error, storage, analyzeReqs, pdfJobs >>

\* Clear History button of the history modal
clearHistory ==
    /\ phase = "mounted"
    /\ showHistory
    /\ Len(scanHistory) > 0
    /\ scanHistory' = << >>
    /\ storage' = Absent
    /\ UNCHANGED << phase, isDarkMode, address, analysis, loading, showResults,
                    showHistory, showFAQ, showApproach, showCharts, generatingPdf,
                    error, analyzeReqs, showTimers, pdfJobs >>

\* click on an entry of the history modal
SelectHistory ==
    /\ phase = "mounted"
    /\ showHistory
    /\ \E i \in 1..Len(scanHistory) :
         /\ address' = scanHistory[i].address
         /\ analysis' = scanHistory[i]
         /\ showCharts' = EmptyWalletEffect(analysis, scanHistory[i], showCharts)
    /\ showResults' = TRUE
    /\ showHistory' = FALSE
    /\ UNCHANGED << phase, isDarkMode, loading, scanHistory, showFAQ,
                    showApproach, generatingPdf, error, storage, analyzeReqs,
                    showTimers, pdfJobs >>

\* nav bar and modal buttons: setShowHistory / setShowFAQ / setShowApproach
SetShowHistory ==
    /\ phase = "mounted"
    /\ showHistory' = ~showHistory
    /\ UNCHANGED << phase, isDarkMode, address, analysis, loading, showResults,
                    scanHistory, showFAQ, showApproach, showCharts, generatingPdf,
                    error, storage, analyzeReqs, showTimers, pdfJobs >>

SetShowFAQ ==
    /\ phase = "mounted"
    /\ showFAQ' = ~showFAQ
    /\ UNCHANGED << phase, isDarkMode, address, analysis, loading, showResults,
                    scanHistory, showHistory, showApproach, showCharts,
                    generatingPdf, error, storage, analyzeReqs, showTimers,
                    pdfJobs >>

SetShowApproach ==
    /\ phase = "mounted"
    /\ showApproach' = ~showApproach
    /\ UNCHANGED << phase, isDarkMode, address, analysis, loading, showResults,
                    scanHistory, showHistory, showFAQ, showCharts, generatingPdf,
                    error, storage, analyzeReqs, showTimers, pdfJobs >>

\* onToggleTheme: setIsDarkMode(prev => !prev)
onToggleTheme ==
    /\ phase = "mounted"
    /\ isDarkMode' = ~isDarkMode
    /\ UNCHANGED << phase, address, analysis, loading, showResults, scanHistory,
                    showHistory, showFAQ, showApproach, showCharts, generatingPdf,
                    error, storage, analyzeReqs, showTimers, pdfJobs >>

\* the error Alert's onClose
CloseError ==
    /\ phase = "mounted"
    /\ error # NoError
    /\ error' = NoError
    /\ UNCHANGED << phase, isDarkMode, address, analysis, loading, showResults,
                    scanHistory, showHistory, showFAQ, showApproach, showCharts,
                    generatingPdf, storage, analyzeReqs, showTimers, pdfJobs >>

\* Show Charts / Hide Charts button of the results card
ToggleCharts ==
    /\ phase = "mounted"
    /\ analysis # NullResult
    /\ ~isEmptyWallet(analysis)
    /\ showCharts' = ~showCharts
    /\ UNCHANGED << phase, isDarkMode, address, analysis, loading, showResults,
                    scanHistory, showHistory, showFAQ, showApproach, generatingPdf,
                    error, storage, analyzeReqs, showTimers, pdfJobs >>

\* Download PDF Report onClick up to its first await (the 5 s / 2 s wait); the
\* closure keeps the analysis and the address of the render of the click
StartPdf ==
    /\ phase = "mounted"
    /\ analysis # NullResult
    /\ ~PdfDisabled
    /\ generatingPdf' = TRUE
    /\ showCharts' = TRUE
    /\ pdfJobs' = Append(pdfJobs, [analysis |-> analysis, address |-> address,
                                   chartsWereHidden |-> ~showCharts,
                                   pc |-> "wait"])
    /\ UNCHANGED << phase, isDarkMode, address, analysis, loading, showResults,
                    scanHistory, showHistory, showFAQ, showApproach, error,
                    storage, analyzeReqs, showTimers >>

\* the wait is over: downloadPdfReportWithCharts(analysis, address) is called
PdfCall ==
    \E i \in 1..Len(pdfJobs) :
      /\ pdfJobs[i].pc = "wait"
      /\ pdfJobs' = [pdfJobs EXCEPT ![i].pc = "generate"]
      /\ UNCHANGED << phase, isDarkMode, address, analysis, loading, showResults,
                      scanHistory, showHistory, showFAQ, showApproach, showCharts,
                      generatingPdf, error, storage, analyzeReqs, showTimers >>

\* downloadPdfReportWithCharts returned or threw: the finally block
PdfFinally ==
    \E i \in 1..Len(pdfJobs) :
      /\ pdfJobs[i].pc = "generate"
      /\ pdfJobs' = RemoveAt(pdfJobs, i)
      /\ showCharts' = IF pdfJobs[i].chartsWereHidden THEN FALSE ELSE showCharts
      /\ generatingPdf' = FALSE
      /\ UNCHANGED << phase, isDarkMode, address, analysis, loading, showResults,
                      scanHistory, showHistory, showFAQ, showApproach, error,
                      storage, analyzeReqs, showTimers >>

(***************************************************************************)
(* saveToHistory as a function of (history, result)                        *)
(***************************************************************************)
\* a history of n entries with the addresses first, first+step, ... (mod
\* NAddr): distinct for step # 0, n copies of one address for step = 0
HistoryRun(first, step, n) ==
    [i \in 1..n |-> Result(((first - 1 + (i - 1) * step) % NAddr) + 1, StoredVer)]

HistInit ==
    /\ hPc = "input"
    /\ \E first \in 1..NAddr, step \in {0, 1, NAddr - 1}, n \in 0..NAddr :
         hHistory = HistoryRun(first, step, n)
    /\ \E a \in 1..NAddr : hResult = Result(a, FreshVer)
    /\ hNew = << >>

\* saveToHistory(analysisResult) in a render whose scanHistory is hHistory
HistSave ==
    /\ hPc = "input"
    /\ hPc' = "saved"
    /\ hNew' = saveToHistory(hHistory, hResult)
    /\ UNCHANGED << hHistory, hResult >>

HistIdle == hPc = "off" /\ hHistory = << >> /\ hResult = NullResult /\ hNew = << >>

(***************************************************************************)
(* Chart data shaping: WalletCredibilityChart ("wcc") and                  *)
(* InflowOutflowChart ("ioc")                                              *)
(***************************************************************************)
Granularities == {"day", "week", "month", "year"}
ChartKinds == {"wcc", "ioc"}

\* longest point list given to the charts
MaxPoints == 17
\* dates are day numbers 1..DateSpan
DateSpan == 7

\* a numeric field that is missing, null or NaN in the response
Missing == -1
\* Number(x) || 0, and x || 0
Coerce(x) == IF x = Missing THEN 0 ELSE x

Point(d, r, s) == [date |-> d, received_btc |-> r, sent_btc |-> s]

\* point lists of n points whose dates step by k from off (wrapping, so with
\* repeats and out of order), with some amounts missing
PointList(n, k, off) ==
    [i \in 1..n |->
        Point(((i * k + off) % DateSpan) + 1,
              IF (i + off) % 4 = 0 THEN Missing ELSE i % 3,
              IF (i + off) % 5 = 1 THEN Missing ELSE (i + off) % 2)]

PointLists ==
    { PointList(n, k, off) : n \in 0..MaxPoints, k \in {1, 3, 6}, off \in 0..2 }

\* [...points].sort((a, b) => time(a.date) - time(b.date)): a stable sort
RECURSIVE InsertByDate(_, _)
InsertByDate(sorted, p) ==
    IF sorted = << >> THEN << p >>
    ELSE IF Head(sorted).date <= p.date
         THEN << Head(sorted) >> \o InsertByDate(Tail(sorted), p)
         ELSE << p >> \o sorted

RECURSIVE SortByDate(_)
SortByDate(points) ==
    IF points = << >> THEN << >>
    ELSE InsertByDate(SortByDate(SubSeq(points, 1, Len(points) - 1)),
                      points[Len(points)])

\* toLocaleDateString options of WalletCredibilityChart: which parts are shown
wccLabel(d, g) ==
    [date |-> d, year |-> "numeric",
     month |-> IF g = "month" THEN "short" ELSE "numeric",
     day |-> IF g = "day" THEN "numeric" ELSE "none"]

\* toLocaleDateString options of InflowOutflowChart
iocLabel(d, g) ==
    [date |-> d, month |-> "short",
     day |-> IF g = "week" THEN "numeric" ELSE "none",
     year |-> IF g = "month" THEN "numeric" ELSE "none"]

\* WalletCredibilityChart chartData: sort by date, coerce numbers, label
wccChartData(points, g) ==
    LET sorted == SortByDate(points)
    IN  [i \in 1..Len(sorted) |->
            [date |-> sorted[i].date,
             received_btc |-> Coerce(sorted[i].received_btc),
             sent_btc |-> Coerce(sorted[i].sent_btc),
             formattedDate |-> wccLabel(sorted[i].date, g)]]

\* InflowOutflowChart loadData: res.points.map(...) in response order; the
\* stored date is the label made from the point's date
iocInflowData(points, g) ==
    [i \in 1..Len(points) |->
        [date |-> iocLabel(points[i].date, g),
         inflow |-> Coerce(points[i].received_btc),
         outflow |-> Coerce(points[i].sent_btc),
         net |-> Coerce(points[i].received_btc) - Coerce(points[i].sent_btc)]]

\* InflowOutflowChart chartData: data.map(...)
iocChartData(data) ==
    [i \in 1..Len(data) |->
        [date |-> data[i].date,
         inflow |-> Coerce(data[i].inflow),
         outflow |-> Coerce(data[i].outflow),
         net |-> Coerce(data[i].inflow) - Coerce(data[i].outflow)]]

\* arr.slice(-n)
SliceBack(s, n) == IF Len(s) <= n THEN s ELSE SubSeq(s, Len(s) - n + 1, Len(s))

\* maxPoints without the 12-point case
maxPointsAlways16(g) == 16

\* maxPoints of displayData (the same in both charts)
maxPoints(g) == IF g = "week" THEN 16 ELSE 12

\* displayData (the same in both charts)
displayData(chartData, g) ==
    IF Len(chartData) = 0 THEN << >> ELSE SliceBack(chartData, maxPoints(g))

RECURSIVE SumRows(_)
SumRows(rows) ==
    IF rows = << >> THEN [inflow |-> 0, outflow |-> 0, net |-> 0]
    ELSE LET acc == SumRows(Tail(rows))
         IN  [inflow |-> acc.inflow + Head(rows).inflow,
              outflow |-> acc.outflow + Head(rows).outflow,
              net |-> acc.net + Head(rows).net]

\* totals taken over the rows the chart displays at monthly granularity
totalsOfDisplayed(chartData) == SumRows(SliceBack(chartData, 12))

\* InflowOutflowChart totals: chartData.reduce(...)
RECURSIVE totals(_)
totals(chartData) ==
    IF chartData = << >> THEN [inflow |-> 0, outflow |-> 0, net |-> 0]
    ELSE LET acc == totals(SubSeq(chartData, 1, Len(chartData) - 1))
             point == chartData[Len(chartData)]
         IN  [inflow |-> acc.inflow + point.inflow,
              outflow |-> acc.outflow + point.outflow,
              net |-> acc.net + point.net]

NoTotals == [inflow |-> 0, outflow |-> 0, net |-> 0]

AggInit ==
    /\ aPc = "input"
    /\ aKind \in ChartKinds
    /\ aGranularity \in Granularities
    /\ aPoints \in PointLists
    /\ aChartData = << >>
    /\ aDisplayData = << >>
    /\ aTotals = NoTotals

\* a render of WalletCredibilityChart with data.points = aPoints
wccRender ==
    /\ aPc = "input"
    /\ aKind = "wcc"
    /\ aPc' = "rendered"
    /\ aChartData' = wccChartData(aPoints, aGranularity)
    /\ aDisplayData' = displayData(aChartData', aGranularity)
    /\ UNCHANGED << aKind, aGranularity, aPoints, aTotals >>

\* loadData's continuation and the next render of InflowOutflowChart with
\* res.points = aPoints
iocRender ==
    /\ aPc = "input"
    /\ aKind = "ioc"
    /\ aPc' = "rendered"
    /\ aChartData' = iocChartData(iocInflowData(aPoints, aGranularity))
    /\ aDisplayData' = displayData(aChartData', aGranularity)
    /\ aTotals' = totals(aChartData')
    /\ UNCHANGED << aKind, aGranularity, aPoints >>

AggIdle ==
    /\ aPc = "off" /\ aKind = "wcc" /\ aGranularity = "week" /\ aPoints = << >>
    /\ aChartData = << >> /\ aDisplayData = << >> /\ aTotals = NoTotals


(***************************************************************************)
(* One chart component as the shell mounts it                              *)
(***************************************************************************)
\* requests a chart issues per behaviour
MaxRequests == 3

\* the preset buttons the timeframe selector renders
PresetKeys == {"30d", "90d", "6m", "1y"}
\* applyPreset accepts any string
AnyKeys == PresetKeys \cup {"other"}

\* getOptimalGranularity with "<" for "<="
getOptimalGranularityStrict(days) ==
    IF days < 90 THEN "week" ELSE "month"

\* getOptimalGranularity(days)
getOptimalGranularity(days) ==
    IF days <= 90 THEN "week"
    ELSE IF days <= 180 THEN "month"
    ELSE "month"

\* the switch of applyPreset
PresetDays(key) ==
    CASE key = "30d" -> 30
      [] key = "90d" -> 90
      [] key = "6m" -> 180
      [] key = "1y" -> 365
      [] OTHER -> 90

\* the timeframe applyPreset(key) sets
PresetTimeframe(key) ==
    [days |-> PresetDays(key), granularity |-> getOptimalGranularity(PresetDays(key))]

\* props the shell passes: defaultDays={90}, defaultGranularity "day" to
\* WalletCredibilityChart and "week" to InflowOutflowChart
DefaultTimeframe(kind) ==
    [days |-> 90, granularity |-> IF kind = "wcc" THEN "day" ELSE "week"]

\* analysis.address values the shell passes as the address prop
ChartAddrs == {1, 2}

\* the selection a request was issued for
Selection(a, tf) == [address |-> a, days |-> tf.days, granularity |-> tf.granularity]
NoSelection == [address |-> NoAddr, days |-> 0, granularity |-> "none"]

\* data === null (WalletCredibilityChart) / data === [] (InflowOutflowChart)
NoData == [from |-> NoSelection, present |-> FALSE, rows |-> << >>]

\* point lists a time-series response can carry; hasPoints = FALSE is a
\* response without a points field
ChartResponses ==
    { [hasPoints |-> hp, points |-> pl] :
        hp \in {TRUE}, pl \in {PointList(0, 1, 0), PointList(2, 6, 0), PointList(3, 3, 1)} }
    \cup { [hasPoints |-> FALSE, points |-> << >>] }

ChartErrors == {"Network error."}

\* what a response carries: no points field, an empty list, or points
ResponseShape(res) ==
    IF ~res.hasPoints THEN "missing"
    ELSE IF Len(res.points) = 0 THEN "empty"
    ELSE "points"

\* chartData of the mounted chart
cChartData ==
    IF cKind = "wcc"
    THEN IF ~cData.present \/ Len(cData.rows) = 0 THEN << >>
         ELSE wccChartData(cData.rows, timeframe.granularity)
    ELSE iocChartData(cData.rows)

cDisplayData == displayData(cChartData, timeframe.granularity)

\* the render branches: spinner, error text (WalletCredibilityChart only),
\* no-data text, or the chart with its timeframe selector
cView ==
    IF cLoading THEN "loading"
    ELSE IF cKind = "wcc" /\ cError # NoError THEN "error"
    ELSE IF Len(cChartData) = 0 THEN "nodata"
    ELSE "chart"

\* the effect's cleanup: mounted = false, controller.abort() (the controller's
\* signal is not given to the request, which stays in flight)
Cleanup(reqs) ==
    [i \in 1..Len(reqs) |->
        IF reqs[i].mounted
        THEN [reqs[i] EXCEPT !.mounted = FALSE, !.aborted = (cKind = "wcc")]
        ELSE reqs[i]]

\* the effect body: loadData() for address a and timeframe tf
RunEffect(reqs, a, tf) ==
    /\ cIssued < MaxRequests
    /\ cIssued' = cIssued + 1
    /\ cOutcome' = "none"
    /\ cLoading' = TRUE
    /\ cError' = IF cKind = "wcc" THEN NoError ELSE cError
    /\ cReqs' = Append(reqs, [sel |-> Selection(a, tf), mounted |-> TRUE,
                              aborted |-> FALSE])

ChartStart ==
    /\ cPhase = "init"
    /\ cKind \in ChartKinds
    /\ cAddress \in ChartAddrs
    /\ timeframe = DefaultTimeframe(cKind)
    /\ activePreset = "90d"
    /\ cData = NoData
    /\ cLoading = FALSE
    /\ cError = NoError
    /\ cReqs = << >>
    /\ cIssued = 0
    /\ cOutcome = "none"

\* the first run of the fetch effect
ChartMount ==
    /\ cPhase = "init"
    /\ cPhase' = "mounted"
    /\ RunEffect(cReqs, cAddress, timeframe)
    /\ UNCHANGED << cKind, cAddress, timeframe, activePreset, cData >>

\* a preset button's onClick: applyPreset(key), then the effect if its
\* dependencies changed
applyPreset ==
    /\ cPhase = "mounted"
    /\ cView = "chart"
    /\ \E key \in PresetKeys :
         /\ timeframe' = PresetTimeframe(key)
         /\ activePreset' = key
    /\ IF timeframe' # timeframe
         THEN RunEffect(Cleanup(cReqs), cAddress, timeframe')
         ELSE UNCHANGED << cReqs, cIssued, cLoading, cError, cOutcome >>
    /\ UNCHANGED << cPhase, cKind, cAddress, cData >>

\* the shell renders the chart with another analysis.address
AddressChange ==
    /\ cPhase = "mounted"
    /\ \E a \in ChartAddrs \ {cAddress} : cAddress' = a
    /\ RunEffect(Cleanup(cReqs), cAddress', timeframe)
    /\ UNCHANGED << cPhase, cKind, timeframe, activePreset, cData >>

\* the shell stops rendering the chart
ChartUnmount ==
    /\ cPhase = "mounted"
    /\ cPhase' = "unmounted"
    /\ cReqs' = Cleanup(cReqs)
    /\ UNCHANGED << cKind, cAddress, timeframe, activePreset, cData, cLoading,
                    cError, cIssued, cOutcome >>

\* the finally clause without its setLoading(false)
finallyKeepsLoading(mounted, flag) == flag

\* finally { if (mounted) setLoading(false); }
finallyLoading(mounted, flag) == IF mounted THEN FALSE ELSE flag

\* loadData after getWalletTimeSeries resolved
ChartResolve ==
    \E i \in 1..Len(cReqs), res \in ChartResponses :
      LET req == cReqs[i] IN
      /\ cReqs' = RemoveAt(cReqs, i)
      /\ IF ~req.mounted THEN UNCHANGED cData
         ELSE IF cKind = "wcc"
           THEN cData' = [from |-> req.sel, present |-> TRUE, rows |-> res.points]
           ELSE IF res.hasPoints
             THEN cData' = [from |-> req.sel, present |-> TRUE,
                            rows |-> iocInflowData(res.points, req.sel.granularity)]
             ELSE UNCHANGED cData
      /\ cLoading' = finallyLoading(req.mounted, cLoading)
      /\ cOutcome' = IF req.mounted THEN ResponseShape(res) ELSE cOutcome
      /\ UNCHANGED << cPhase, cKind, cAddress, timeframe, activePreset, cError,
                      cIssued >>

\* loadData after getWalletTimeSeries rejected
ChartReject ==
    \E i \in 1..Len(cReqs), msg \in ChartErrors :
      LET req == cReqs[i] IN
      /\ cReqs' = RemoveAt(cReqs, i)
      /\ cError' = IF cKind = "wcc" /\ req.mounted THEN msg ELSE cError
      /\ cLoading' = finallyLoading(req.mounted, cLoading)
      /\ cOutcome' = IF req.mounted THEN "error" ELSE cOutcome
      /\ UNCHANGED << cPhase, cKind, cAddress, timeframe, activePreset, cData,
                      cIssued >>

ChartIdle ==
    /\ cPhase = "off" /\ cKind = "wcc" /\ cAddress = NoAddr
    /\ timeframe = DefaultTimeframe("wcc") /\ activePreset = "90d"
    /\ cData = NoData /\ cLoading = FALSE /\ cError = NoError
    /\ cReqs = << >> /\ cIssued = 0 /\ cOutcome = "none"

(***************************************************************************)
(* The response interceptor of the API client (services/api.ts)            *)
(***************************************************************************)
VARIABLES
    nPc,            \* "failed": the request failed; "thrown": the interceptor threw
    nError,         \* the failure axios hands to the interceptor
    isProduction,   \* import.meta.env.PROD
    nThrown         \* what the interceptor threw

netVars == << nPc, nError, isProduction, nThrown >>

\* HTTP statuses of a failure that has a response
Statuses == {400, 401, 403, 404, 429, 500, 502, 503, 504}
\* error.response?.status of a failure without a response
NoStatus == 0
\* axios error codes; "none" is an error without a code
ErrorCodes == {"none", "ECONNABORTED", "ERR_NETWORK", "ERR_BAD_RESPONSE", "ERR_CANCELED"}

\* the failures the interceptor can be handed
TransportErrors ==
    { [hasResponse |-> TRUE, status |-> st, code |-> c] : st \in Statuses, c \in ErrorCodes }
    \cup { [hasResponse |-> FALSE, status |-> NoStatus, code |-> c] : c \in ErrorCodes }

NoTransportError == [hasResponse |-> FALSE, status |-> NoStatus, code |-> "none"]

\* throw new Error(message)
NewError(message) == [rethrown |-> FALSE, message |-> message, error |-> NoTransportError]
\* throw error
Rethrow(err) == [rethrown |-> TRUE, message |-> "", error |-> err]
NothingThrown == [rethrown |-> FALSE, message |-> "", error |-> NoTransportError]

TimeoutMessage(prod) ==
    IF prod THEN "Request timeout. (high server load)"
    ELSE "Request timeout. (high address activity, rate limits or congestion)"

\* the interceptor with the no-response test before the ECONNABORTED test
interceptNetworkFirst(err, prod) ==
    IF err.hasResponse /\ err.status = 429 THEN NewError("Rate limit exceeded.")
    ELSE IF err.hasResponse /\ err.status = 400 THEN NewError("Invalid Bitcoin address format.")
    ELSE IF err.hasResponse /\ err.status = 504 THEN NewError("Analysis timeout.")
    ELSE IF err.hasResponse /\ err.status = 500 THEN NewError("Internal server error.")
    ELSE IF ~err.hasResponse THEN NewError("Network error.")
    ELSE IF err.code = "ECONNABORTED" THEN NewError(TimeoutMessage(prod))
    ELSE Rethrow(err)

\* the rejection handler of apiClient.interceptors.response
intercept(err, prod) ==
    IF err.hasResponse /\ err.status = 429 THEN NewError("Rate limit exceeded.")
    ELSE IF err.hasResponse /\ err.status = 400 THEN NewError("Invalid Bitcoin address format.")
    ELSE IF err.hasResponse /\ err.status = 504 THEN NewError("Analysis timeout.")
    ELSE IF err.hasResponse /\ err.status = 500 THEN NewError("Internal server error.")
    ELSE IF err.code = "ECONNABORTED" THEN NewError(TimeoutMessage(prod))
    ELSE IF ~err.hasResponse THEN NewError("Network error.")
    ELSE Rethrow(err)

NetInit ==
    /\ nPc = "failed"
    /\ nError \in TransportErrors
    /\ isProduction \in BOOLEAN
    /\ nThrown = NothingThrown

\* the interceptor runs on the failure
Intercept ==
    /\ nPc = "failed"
    /\ nPc' = "thrown"
    /\ nThrown' = intercept(nError, isProduction)
    /\ UNCHANGED << nError, isProduction >>

NetIdle ==
    /\ nPc = "off" /\ nError = NoTransportError /\ isProduction = FALSE
    /\ nThrown = NothingThrown

(***************************************************************************)
(* The history load effect on any stored string (App, mount effect)        *)
(***************************************************************************)
VARIABLES
    lPc,            \* "init" before the effect ran, "mounted" after
    lStored,        \* the item under 'bitscan_history' when the shell starts
    lItem,          \* the item under 'bitscan_history' now
    lHistory        \* the scanHistory state

loadVars == << lPc, lStored, lItem, lHistory >>

\* longest stored list and number of first addresses of the stored lists
MaxStored == 10
NFirst == 5

\* what JSON.parse can return: an array of analysis results, an array of
\* other values, null, a number, a string, an object
JsonResults(h) == [kind |-> "results", items |-> h]
JsonOther(kind) == [kind |-> kind, items |-> << >>]
NonListKinds == {"null", "number", "string", "object"}

\* the stored item: getItem gives null ("none"), the empty string, a string
\* JSON.parse throws on ("garbage"), or the JSON text of a value
NoItem == [text |-> "none", json |-> JsonOther("null")]
EmptyItem == [text |-> "empty", json |-> JsonOther("null")]
GarbageItem == [text |-> "garbage", json |-> JsonOther("null")]
JsonItem(v) == [text |-> "json", json |-> v]

StoredItems ==
    { NoItem, EmptyItem, GarbageItem }
    \cup { JsonItem(JsonResults(StoredRun(first, n))) : first \in 1..NFirst, n \in 0..MaxStored }
    \cup { JsonItem(JsonOther(k)) : k \in NonListKinds \cup {"array"} }

\* the effect's result: the scanHistory state and the stored item after it
loadScanHistory(item, history) ==
    IF item.text \in {"none", "empty"}
    THEN [scanHistory |-> history, item |-> item]
    ELSE IF item.text = "json"
      THEN [scanHistory |-> item.json, item |-> item]
      ELSE [scanHistory |-> history, item |-> NoItem]

LoadInit ==
    /\ lPc = "init"
    /\ lStored \in StoredItems
    /\ lItem = lStored
    /\ lHistory = JsonResults(<< >>)

\* the mount effect
LoadEffect ==
    /\ lPc = "init"
    /\ lPc' = "mounted"
    /\ lHistory' = loadScanHistory(lItem, lHistory).scanHistory
    /\ lItem' = loadScanHistory(lItem, lHistory).item
    /\ UNCHANGED lStored

LoadIdle ==
    /\ lPc = "off" /\ lStored = NoItem /\ lItem = NoItem
    /\ lHistory = JsonResults(<< >>)

(***************************************************************************)
(* The persisted theme item                                                *)
(***************************************************************************)
VARIABLES
    themeItem       \* localStorage item 'bitscan-theme': "none", "true" or "false"

themeVars == << themeItem >>

\* what the browser can hold under the key; the only writer in the sources
\* is useTheme, which the shell does not call
ThemeItems == {"none", "true", "false"}

\* JSON.stringify of a boolean
ThemeJson(flag) == IF flag THEN "true" ELSE "false"

ThemeIdle == themeItem = "none"

(***************************************************************************)
(* The report generators (downloadPdfReport, downloadPdfReportWithCharts,  *)
(* downloadExcelReport)                                                    *)
(***************************************************************************)
VARIABLES
    dPc,            \* the statement the generator is at
    dGen,           \* "pdf", "pdfCharts" or "xlsx"
    dIn,            \* the call's inputs: analysis, address, what the page shows
    currentY,       \* the cursor
    dPages,         \* doc.getNumberOfPages()
    dPage,          \* the page drawing goes to
    dHeaders,       \* section headers drawn, in order
    dBody,          \* what was drawn under the headers, in order
    dFooters,       \* footers drawn, in order
    dLoop,          \* the footer loop: i and totalPages
    dSheets,        \* worksheets appended to the workbook, in order
    dSaved          \* doc.save / writeFile was called

docVars ==
    << dPc, dGen, dIn, currentY, dPages, dPage, dHeaders, dBody, dFooters, dLoop,
       dSheets, dSaved >>

\* pages one autoTable call can add
MaxAddedPages == 1

LAYOUT == [margin |-> 20, pageWidth |-> 210, pageHeight |-> 297,
           headerHeight |-> 35, footerHeight |-> 15]

Generators == {"pdf", "pdfCharts", "xlsx"}

\* risk factor lists of an analysis: "noise" stands for the entries the
\* generators filter out ('fast analysis', 'limited data available',
\* 'minor deviations detected')
RiskInputs == { << >>, << "noise" >>, << "risk", "noise", "risk" >> }
\* positive indicator lists
PositiveInputs == { << >>, << "indicator", "indicator" >> }
\* analysis.data_limitations: absent, present, present with rate_limit_detected
LimitationInputs == {"absent", "present", "rateLimited"}
\* what the page shows when the charts are captured: the two chart
\* containers, and whether html2canvas fails ("import": the import fails,
\* "capture": the first capture fails)
ChartInputs ==
    { [balance |-> TRUE, inflow |-> TRUE, fails |-> "no"],
      [balance |-> TRUE, inflow |-> FALSE, fails |-> "no"],
      [balance |-> FALSE, inflow |-> TRUE, fails |-> "no"],
      [balance |-> FALSE, inflow |-> FALSE, fails |-> "no"],
      [balance |-> TRUE, inflow |-> TRUE, fails |-> "capture"],
      [balance |-> TRUE, inflow |-> TRUE, fails |-> "import"] }

DocInputs ==
    [ risk : RiskInputs, positive : PositiveInputs, limitations : LimitationInputs,
      longAddress : BOOLEAN, charts : ChartInputs ]

\* the filter the generators apply to extractRiskFactors(analysis)
RECURSIVE FilterRisk(_)
FilterRisk(factors) ==
    IF factors = << >> THEN << >>
    ELSE IF Head(factors) = "noise" THEN FilterRisk(Tail(factors))
    ELSE << Head(factors) >> \o FilterRisk(Tail(factors))

\* drawProfessionalHeader: the cursor it returns
drawProfessionalHeader == LAYOUT.headerHeight + 5

\* drawWalletAddressSection: the cursor it returns
drawWalletAddressSection(long, y) == IF long THEN y + 22 ELSE y + 20

\* drawSectionHeader: adjustedY
AdjustedY(y) ==
    IF y < LAYOUT.headerHeight + LAYOUT.footerHeight + 20
    THEN LAYOUT.headerHeight + LAYOUT.footerHeight + 20
    ELSE y

\* drawSectionHeader: the cursor it returns
drawSectionHeader(y) == AdjustedY(y) + 15

\* the record of one drawSectionHeader(doc, title, y) call on page pg
HeaderAt(title, pg, y) == [title |-> title, page |-> pg, y |-> y, at |-> AdjustedY(y)]

\* positions on a page at which a table can end
TableEnds == {120, 240, 280}

\* autoTable({startY, ...}): how many pages it added and lastAutoTable.finalY;
\* both depend on the row heights, which the generators do not fix
TableOutcomes(startY) ==
    { [added |-> 0, finalY |-> y] : y \in { e \in TableEnds : e > startY } }
    \cup { [added |-> n, finalY |-> y] : n \in 1..MaxAddedPages, y \in TableEnds }

\* a drawn item under a section header
Drawn(section, kind) == [section |-> section, kind |-> kind]

\* the page-break check with the header drawn on both sides of the break
HeaderTwiceAcrossBreak(title, threshold, y, pages) ==
    IF y > threshold
    THEN [pages |-> pages + 1, y |-> drawSectionHeader(LAYOUT.margin),
          headers |-> << HeaderAt(title, pages, y),
                         HeaderAt(title, pages + 1, LAYOUT.margin) >>]
    ELSE [pages |-> pages, y |-> drawSectionHeader(y),
          headers |-> << HeaderAt(title, pages, y) >>]

\* if (currentY > threshold) { doc.addPage(); currentY = LAYOUT.margin; }
\* currentY = drawSectionHeader(doc, title, currentY);
BreakThenHeader(title, threshold, y, pages) ==
    LET brk == y > threshold
        y0 == IF brk THEN LAYOUT.margin ELSE y
        pg == IF brk THEN pages + 1 ELSE pages
    IN  [pages |-> pg, y |-> drawSectionHeader(y0),
         headers |-> << HeaderAt(title, pg, y0) >>]

\* one content step: the cursor, the page count (drawing goes to the last
\* page), the headers and items it drew
DocStep(pc, y, pages, headers, body) ==
    /\ dPc' = pc
    /\ currentY' = y
    /\ dPages' = pages
    /\ dPage' = pages
    /\ dHeaders' = dHeaders \o headers
    /\ dBody' = dBody \o body
    /\ UNCHANGED << dGen, dIn, dFooters, dLoop, dSheets, dSaved >>

NoLoop == [i |-> 0, total |-> 0]

DocInit ==
    /\ dPc = "start"
    /\ dGen \in Generators
    /\ dIn \in DocInputs
    /\ currentY = 0 /\ dPages = 0 /\ dPage = 0
    /\ dHeaders = << >> /\ dBody = << >> /\ dFooters = << >>
    /\ dLoop = NoLoop /\ dSheets = << >> /\ dSaved = FALSE

(* ---- downloadPdfReport ---- *)

\* initProfessionalDocument, page header, address box, the metric cards
PdfBegin ==
    /\ dGen = "pdf" /\ dPc = "start"
    /\ LET y0 == drawWalletAddressSection(dIn.longAddress, drawProfessionalHeader) + 8
       IN  DocStep("risk", y0 + (32 + 8) + (32 + 8) + (32 + 15), 1, << >>, << >>)

\* Risk Intelligence section
PdfRisk ==
    /\ dGen = "pdf" /\ dPc = "risk"
    /\ LET riskFactors == FilterRisk(dIn.risk)
           y1 == drawSectionHeader(currentY)
           hd == << HeaderAt("Risk Intelligence Assessment", dPages, currentY) >>
       IN  IF Len(riskFactors) > 0
           THEN \E t \in TableOutcomes(y1 + 14) :
                  DocStep("mitigating", t.finalY + 15, dPages + t.added, hd,
                          << Drawn("risk", "text"), Drawn("risk", "table") >>)
           ELSE DocStep("mitigating", y1 + 20, dPages, hd,
                        << Drawn("risk", "placeholder") >>)

\* Positive Indicators section
PdfMitigating ==
    /\ dGen = "pdf" /\ dPc = "mitigating"
    /\ IF Len(dIn.positive) > 0
       THEN \E t \in TableOutcomes(drawSectionHeader(currentY) + 12) :
              DocStep("quality", t.finalY + 15, dPages + t.added,
                      << HeaderAt("Mitigating Factors", dPages, currentY) >>,
                      << Drawn("mitigating", "text"), Drawn("mitigating", "table") >>)
       ELSE DocStep("quality", currentY, dPages, << >>, << >>)

\* Data Quality & Limitations section
PdfQuality ==
    /\ dGen = "pdf" /\ dPc = "quality"
    /\ IF dIn.limitations # "absent"
       THEN \E t \in TableOutcomes(drawSectionHeader(currentY)) :
              DocStep("footers", t.finalY + 10, dPages + t.added,
                      << HeaderAt("Data Quality Assessment", dPages, currentY) >>,
                      << Drawn("quality", "table") >>)
       ELSE DocStep("footers", currentY, dPages, << >>, << >>)

(* ---- downloadPdfReportWithCharts ---- *)

\* initProfessionalDocument, page header, address box
ChartsPdfBegin ==
    /\ dGen = "pdfCharts" /\ dPc = "start"
    /\ DocStep("summary",
               drawWalletAddressSection(dIn.longAddress, drawProfessionalHeader) + 10,
               1, << >>, << >>)

\* Executive Summary section
ChartsPdfSummary ==
    /\ dGen = "pdfCharts" /\ dPc = "summary"
    /\ LET h == BreakThenHeader("Executive Summary", 250, currentY, dPages)
       IN  DocStep("risk", h.y + (35 + 10) + (35 + 10) + (35 + 20), h.pages, h.headers,
                   << Drawn("summary", "cards") >>)

\* Risk Intelligence section
ChartsPdfRisk ==
    /\ dGen = "pdfCharts" /\ dPc = "risk"
    /\ LET h == BreakThenHeader("Risk Intelligence Assessment", 230, currentY, dPages)
           riskFactors == FilterRisk(dIn.risk)
       IN  IF Len(riskFactors) > 0
           THEN \E t \in TableOutcomes(h.y + 12) :
                  DocStep("mitigating", t.finalY + 15, h.pages + t.added, h.headers,
                          << Drawn("risk", "text"), Drawn("risk", "table") >>)
           ELSE DocStep("mitigating", h.y + 25, h.pages, h.headers,
                        << Drawn("risk", "placeholder") >>)

\* Mitigating Factors section
ChartsPdfMitigating ==
    /\ dGen = "pdfCharts" /\ dPc = "mitigating"
    /\ IF Len(dIn.positive) > 0
       THEN LET h == BreakThenHeader("Mitigating Factors", 230, currentY, dPages)
            IN  \E t \in TableOutcomes(h.y + 12) :
                  DocStep("quality", t.finalY + 15, h.pages + t.added, h.headers,
                          << Drawn("mitigating", "text"), Drawn("mitigating", "table") >>)
       ELSE DocStep("quality", currentY, dPages, << >>, << >>)

\* Data Quality & Methodology section; the methodology text is split into
\* two or three lines
ChartsPdfQuality ==
    /\ dGen = "pdfCharts" /\ dPc = "quality"
    /\ LET h == BreakThenHeader("Data Quality & Methodology", 230, currentY, dPages)
       IN  \E lines \in {2, 3} :
             LET y1 == h.y + lines * 5 + 10
             IN  IF dIn.limitations # "absent"
                 THEN \E t \in TableOutcomes(y1) :
                        DocStep("recommend", t.finalY + 15, h.pages + t.added, h.headers,
                                << Drawn("quality", "text"), Drawn("quality", "table") >>)
                 ELSE DocStep("recommend", y1, h.pages, h.headers,
                              << Drawn("quality", "text") >>)

\* Recommendations section
ChartsPdfRecommendations ==
    /\ dGen = "pdfCharts" /\ dPc = "recommend"
    /\ LET h == BreakThenHeader("Recommendations", 230, currentY, dPages)
           n == IF dIn.limitations = "rateLimited" THEN 4 ELSE 2
       IN  DocStep("charts", h.y + n * 5 + 20, h.pages, h.headers,
                   << Drawn("recommend", "text") >>)

\* Charts section, inside its try / catch
ChartsPdfCharts ==
    /\ dGen = "pdfCharts" /\ dPc = "charts"
    /\ LET c == dIn.charts
           pg == dPages + 1
           y1 == drawSectionHeader(LAYOUT.margin)
           flow == << HeaderAt("Transaction Flow Analysis", pg, LAYOUT.margin) >>
       IN  IF c.fails = "import" \/ (~c.balance /\ ~c.inflow)
           THEN DocStep("footers", currentY, dPages, << >>, << >>)
           ELSE IF c.balance /\ c.fails = "capture"
           THEN DocStep("footers", y1, pg, flow, << >>)
           ELSE \E h1 \in {40, 80}, h2 \in {40, 70} :
                  LET y2 == IF c.balance THEN y1 + h1 + 15 ELSE y1
                      h == BreakThenHeader("Inflow vs Outflow Analysis", 200, y2, pg)
                  IN  DocStep("footers",
                              IF c.inflow THEN h.y + h2 + 10 ELSE h.y,
                              h.pages, flow \o h.headers,
                              (IF c.balance THEN << Drawn("flow", "image") >> ELSE << >>)
                              \o (IF c.inflow THEN << Drawn("inflow", "image") >> ELSE << >>))

(* ---- the footer pass and the save, the same in both PDF generators ---- *)

\* drawProfessionalFooter with the page number as the total
drawFooterTotalSoFar(page, pageNum, totalPages) ==
    [page |-> page, pageNum |-> pageNum, totalPages |-> pageNum]

\* drawProfessionalFooter(doc, pageNum, totalPages) on the current page
drawProfessionalFooter(page, pageNum, totalPages) ==
    [page |-> page, pageNum |-> pageNum, totalPages |-> totalPages]

\* const totalPages = doc.getNumberOfPages()
FooterPass ==
    /\ dGen \in {"pdf", "pdfCharts"} /\ dPc = "footers"
    /\ dPc' = "stamping"
    /\ dLoop' = [i |-> 1, total |-> dPages]
    /\ UNCHANGED << dGen, dIn, currentY, dPages, dPage, dHeaders, dBody, dFooters,
                    dSheets, dSaved >>

\* one iteration: doc.setPage(i); drawProfessionalFooter(doc, i, totalPages)
FooterStep ==
    /\ dPc = "stamping" /\ dLoop.i <= dLoop.total
    /\ dPage' = dLoop.i
    /\ dFooters' = Append(dFooters, drawProfessionalFooter(dLoop.i, dLoop.i, dLoop.total))
    /\ dLoop' = [dLoop EXCEPT !.i = @ + 1]
    /\ UNCHANGED << dPc, dGen, dIn, currentY, dPages, dHeaders, dBody, dSheets, dSaved >>

\* doc.save(...)
DocSave ==
    /\ dPc = "stamping" /\ dLoop.i > dLoop.total
    /\ dPc' = "done"
    /\ dSaved' = TRUE
    /\ UNCHANGED << dGen, dIn, currentY, dPages, dPage, dHeaders, dBody, dFooters,
                    dLoop, dSheets >>

\* the inputs of the generator when the shell calls it: the risk factors and
\* the chart surfaces vary, the other sections are the shortest ones
ReportInputs ==
    { d \in DocInputs : d.positive = << >> /\ d.limitations = "absent" /\ ~d.longAddress }

\* a call of downloadPdfReportWithCharts(analysis, address): a new document
\* for the contents of the analysis and the chart surfaces of the moment
ChartsPdfCalled ==
    /\ dPc = "off"
    /\ dPc' = "start"
    /\ dGen' = "pdfCharts"
    /\ dIn' \in ReportInputs
    /\ currentY' = 0 /\ dPages' = 0 /\ dPage' = 0
    /\ dHeaders' = << >> /\ dBody' = << >> /\ dFooters' = << >>
    /\ dLoop' = NoLoop /\ dSheets' = << >> /\ dSaved' = FALSE

\* statement groups of downloadPdfReportWithCharts outside the try block of
\* the charts section
OutsideChartCapture ==
    {"start", "summary", "risk", "mitigating", "quality", "recommendations",
     "footers", "stamping"}

\* a drawing call of such a group throws: nothing in the generator catches
\* it, the promise it returned is rejected
DrawingThrows ==
    /\ dGen = "pdfCharts" /\ dPc \in OutsideChartCapture
    /\ dPc' = "aborted"
    /\ UNCHANGED << dGen, dIn, currentY, dPages, dPage, dHeaders, dBody, dFooters,
                    dLoop, dSheets, dSaved >>

\* the promise of downloadPdfReportWithCharts is settled: the document and
\* the other locals of the call are gone
ChartsPdfSettled ==
    /\ dGen = "pdfCharts" /\ dPc \in {"done", "aborted"}
    /\ dPc' = "off" /\ dGen' = "pdf"
    /\ dIn' = [risk |-> << >>, positive |-> << >>, limitations |-> "absent",
               longAddress |-> FALSE,
               charts |-> [balance |-> FALSE, inflow |-> FALSE, fails |-> "no"]]
    /\ currentY' = 0 /\ dPages' = 0 /\ dPage' = 0
    /\ dHeaders' = << >> /\ dBody' = << >> /\ dFooters' = << >>
    /\ dLoop' = NoLoop /\ dSheets' = << >> /\ dSaved' = FALSE

(* ---- downloadExcelReport ---- *)

downloadExcelReport ==
    /\ dGen = "xlsx" /\ dPc = "start"
    /\ dPc' = "done"
    /\ dSheets' = << "Summary" >>
                  \o (IF Len(FilterRisk(dIn.risk)) > 0 THEN << "Risk Factors" >> ELSE << >>)
                  \o (IF Len(dIn.positive) > 0 THEN << "Positive Indicators" >> ELSE << >>)
                  \o (IF dIn.limitations # "absent" THEN << "Data Limitations" >> ELSE << >>)
    /\ dSaved' = TRUE
    /\ UNCHANGED << dGen, dIn, currentY, dPages, dPage, dHeaders, dBody, dFooters, dLoop >>

DocIdle ==
    /\ dPc = "off" /\ dGen = "pdf"
    /\ dIn = [risk |-> << >>, positive |-> << >>, limitations |-> "absent",
              longAddress |-> FALSE,
              charts |-> [balance |-> FALSE, inflow |-> FALSE, fails |-> "no"]]
    /\ currentY = 0 /\ dPages = 0 /\ dPage = 0
    /\ dHeaders = << >> /\ dBody = << >> /\ dFooters = << >>
    /\ dLoop = NoLoop /\ dSheets = << >> /\ dSaved = FALSE

(***************************************************************************)
(* debounce(func, delay)                                                   *)
(***************************************************************************)
VARIABLES
    bNow,        \* the clock, in timer ticks
    bDelay,      \* the delay argument
    timeoutId,   \* the closure's timeoutId (0: still undefined)
    bTimers,     \* pending timers of window.setTimeout: [id, due, args]
    bNextId,     \* the id the next setTimeout returns
    bCalls,      \* calls of the returned function so far: [at, args]
    bInvoked     \* invocations of func so far: [at, args]

debVars == << bNow, bDelay, timeoutId, bTimers, bNextId, bCalls, bInvoked >>

\* calls of the debounced function in one run
MaxCalls == 3
\* last tick of the clock
MaxTime == 6
Delays == {1, 2, 3}
CallArgs == {"a", "b"}

\* clearTimeout that cancels nothing
clearTimeoutNothing(timers, id) == timers
\* clearTimeout(id): the timer with that id, if still pending, is cancelled
clearTimeout(timers, id) == { t \in timers : t.id # id }

\* const debounced = debounce(func, delay)
DebInit ==
    /\ bNow = 0
    /\ bDelay \in Delays
    /\ timeoutId = 0
    /\ bTimers = {}
    /\ bNextId = 1
    /\ bCalls = << >>
    /\ bInvoked = << >>

\* debounced(...args)
DebouncedCall ==
    \E args \in CallArgs :
      /\ Len(bCalls) < MaxCalls
      /\ bTimers' = clearTimeout(bTimers, timeoutId)
                      \cup {[id |-> bNextId, due |-> bNow + bDelay, args |-> args]}
      /\ timeoutId' = bNextId
      /\ bNextId' = bNextId + 1
      /\ bCalls' = Append(bCalls, [at |-> bNow, args |-> args])
      /\ UNCHANGED << bNow, bDelay, bInvoked >>

\* a timer is due: () => func(...args)
TimerFires ==
    \E t \in bTimers :
      /\ t.due <= bNow
      /\ bTimers' = bTimers \ {t}
      /\ bInvoked' = Append(bInvoked, [at |-> bNow, args |-> t.args])
      /\ UNCHANGED << bNow, bDelay, timeoutId, bNextId, bCalls >>

\* time passes; a due timer runs before the clock moves on
Tick ==
    /\ bNow < MaxTime
    /\ \A t \in bTimers : bNow < t.due
    /\ bNow' = bNow + 1
    /\ UNCHANGED << bDelay, timeoutId, bTimers, bNextId, bCalls, bInvoked >>

DebIdle ==
    /\ bNow = 0 /\ bDelay = 1 /\ timeoutId = 0 /\ bTimers = {} /\ bNextId = 1
    /\ bCalls = << >> /\ bInvoked = << >>

(***************************************************************************)
(* The metric cards of the PDF reports                                     *)
(***************************************************************************)
VARIABLES
    kPc,      \* "off", "start", "done"
    kGen,     \* "pdf" or "pdfCharts"
    kIn,      \* the fields of the analysis the first cards show
    kCards    \* the cards drawn: [title, value, color]

cardVars == << kPc, kGen, kIn, kCards >>

\* risk_score is a multiple of 1 / ScoreSteps
ScoreSteps == 10

\* BitcoinAddress.risk_level, as sequences of characters
RiskLevels ==
    { << "M", "I", "N", "I", "M", "A", "L" >>, << "L", "O", "W" >>,
      << "M", "E", "D", "I", "U", "M" >>, << "H", "I", "G", "H" >>,
      << "C", "R", "I", "T", "I", "C", "A", "L" >>,
      << "U", "N", "K", "N", "O", "W", "N" >> }

Upper == << "A", "C", "D", "E", "G", "H", "I", "K", "L", "M", "N", "O", "R", "T", "U", "W" >>
Lower == << "a", "c", "d", "e", "g", "h", "i", "k", "l", "m", "n", "o", "r", "t", "u", "w" >>

\* String.prototype.toLowerCase
toLowerCase(str) ==
    [i \in 1..Len(str) |->
       IF \E k \in 1..Len(Upper) : Upper[k] = str[i]
       THEN Lower[CHOOSE k \in 1..Len(Upper) : Upper[k] = str[i]]
       ELSE str[i]]

\* String.prototype.toUpperCase
toUpperCase(str) ==
    [i \in 1..Len(str) |->
       IF \E k \in 1..Len(Lower) : Lower[k] = str[i]
       THEN Upper[CHOOSE k \in 1..Len(Lower) : Lower[k] = str[i]]
       ELSE str[i]]

\* String.prototype.includes
includes(str, sub) ==
    \E i \in 0..(Len(str) - Len(sub)) : SubSeq(str, i + 1, i + Len(sub)) = sub

\* the risk score card's colour; score in units of 1 / ScoreSteps
riskColor(score) ==
    IF 10 * score > 7 * ScoreSteps THEN "danger"
    ELSE IF 10 * score > 4 * ScoreSteps THEN "warning" ELSE "success"

\* the risk level card's colour
levelColor(risk_level) ==
    IF includes(toLowerCase(risk_level), << "h", "i", "g", "h" >>) THEN "danger"
    ELSE IF includes(toLowerCase(risk_level), << "m", "e", "d", "i", "u", "m" >>)
    THEN "warning" ELSE "success"

Card(title, value, color) == [title |-> title, value |-> value, color |-> color]

CardInit ==
    /\ kPc = "start"
    /\ kGen \in {"pdf", "pdfCharts"}
    /\ kIn \in [risk_score : 0..ScoreSteps, risk_level : RiskLevels, is_flagged : BOOLEAN]
    /\ kCards = << >>

\* downloadPdfReport: the risk score, risk level and status cards
PdfCards ==
    /\ kPc = "start" /\ kGen = "pdf"
    /\ kCards' = << Card("RISK SCORE", kIn.risk_score, riskColor(kIn.risk_score)),
                    Card("RISK LEVEL", toUpperCase(kIn.risk_level),
                         levelColor(kIn.risk_level)),
                    Card("STATUS", IF kIn.is_flagged THEN "FLAGGED" ELSE "CLEAR",
                         IF kIn.is_flagged THEN "danger" ELSE "success") >>
    /\ kPc' = "done"
    /\ UNCHANGED << kGen, kIn >>

\* downloadPdfReportWithCharts: the same cards of the Executive Summary
ChartsPdfCards ==
    /\ kPc = "start" /\ kGen = "pdfCharts"
    /\ kCards' = << Card("OVERALL RISK SCORE", kIn.risk_score, riskColor(kIn.risk_score)),
                    Card("RISK CLASSIFICATION", toUpperCase(kIn.risk_level),
                         levelColor(kIn.risk_level)),
                    Card("WALLET STATUS",
                         IF kIn.is_flagged THEN "REQUIRES ATTENTION" ELSE "APPROVED",
                         IF kIn.is_flagged THEN "danger" ELSE "success") >>
    /\ kPc' = "done"
    /\ UNCHANGED << kGen, kIn >>

CardIdle ==
    /\ kPc = "off" /\ kGen = "pdf"
    /\ kIn = [risk_score |-> 0, risk_level |-> << "L", "O", "W" >>, is_flagged |-> FALSE]
    /\ kCards = << >>

(***************************************************************************)
(* Variable groups outside the components                                  *)
(***************************************************************************)
libVars == << netVars, loadVars, themeVars, docVars, debVars, cardVars >>
LibIdle == NetIdle /\ LoadIdle /\ ThemeIdle /\ DocIdle /\ DebIdle /\ CardIdle

(***************************************************************************)
(* Specifications                                                          *)
(***************************************************************************)
ShellOff == ShellStart /\ storage = Absent
vars == << shellVars, histVars, aggVars, chartVars, libVars >>

ShellOnly == UNCHANGED << histVars, aggVars, chartVars, libVars >>

\* the presentation shell
Init ==
    /\ ShellStart /\ storage \in StoredAtStartup
    /\ HistIdle /\ AggIdle /\ ChartIdle /\ LibIdle
Next ==
    \/ LoadHistory /\ ShellOnly
    \/ Reload /\ ShellOnly
    \/ Unmount /\ ShellOnly
    \/ SetAddress /\ ShellOnly
    \/ handleAnalyze /\ ShellOnly
    \/ AnalyzeResolve /\ ShellOnly
    \/ AnalyzeReject /\ ShellOnly
    \/ ShowResultsTimeout /\ ShellOnly
    \/ clearHistory /\ ShellOnly
    \/ SelectHistory /\ ShellOnly
    \/ SetShowHistory /\ ShellOnly
    \/ CloseError /\ ShellOnly
    \/ ToggleCharts /\ ShellOnly
    \/ StartPdf /\ ShellOnly
    \/ PdfCall /\ ShellOnly
    \/ PdfFinally /\ ShellOnly
Spec == Init /\ [][Next]_vars

\* the presentation shell started on any stored value that parses
InitStored ==
    /\ ShellStart /\ storage \in StoredAtStartup \cup ForeignStored
    /\ HistIdle /\ AggIdle /\ ChartIdle /\ LibIdle
\* the history's readers and writers: startup load, scans, clear, reload
NextStored ==
    \/ LoadHistory /\ ShellOnly
    \/ Reload /\ ShellOnly
    \/ SetAddress /\ ShellOnly
    \/ handleAnalyze /\ ShellOnly
    \/ AnalyzeResolve /\ ShellOnly
    \/ AnalyzeReject /\ ShellOnly
    \/ ShowResultsTimeout /\ ShellOnly
    \/ SetShowHistory /\ ShellOnly
    \/ clearHistory /\ ShellOnly
SpecStored == InitStored /\ [][NextStored]_vars

\* the presentation shell's analysis workflow with its nav bar, modals and theme
NextUI ==
    \/ LoadHistory /\ ShellOnly
    \/ SetAddress /\ ShellOnly
    \/ handleAnalyze /\ ShellOnly
    \/ AnalyzeResolve /\ ShellOnly
    \/ AnalyzeReject /\ ShellOnly
    \/ ShowResultsTimeout /\ ShellOnly
    \/ SelectHistory /\ ShellOnly
    \/ CloseError /\ ShellOnly
    \/ SetShowHistory /\ ShellOnly
    \/ SetShowFAQ /\ ShellOnly
    \/ SetShowApproach /\ ShellOnly
    \/ onToggleTheme /\ ShellOnly
SpecUI == Init /\ [][NextUI]_vars

\* the presentation shell's theme flag over restarts, on any persisted theme
InitTheme ==
    /\ ShellStart /\ storage = Absent
    /\ themeItem \in ThemeItems
    /\ HistIdle /\ AggIdle /\ ChartIdle /\ NetIdle /\ LoadIdle /\ DocIdle
    /\ DebIdle /\ CardIdle
NextTheme ==
    \/ LoadHistory /\ ShellOnly
    \/ Reload /\ ShellOnly
    \/ onToggleTheme /\ ShellOnly
    \/ SetAddress /\ ShellOnly
    \/ SetShowHistory /\ ShellOnly
    \/ SetShowFAQ /\ ShellOnly
    \/ SetShowApproach /\ ShellOnly
SpecTheme == InitTheme /\ [][NextTheme]_vars

\* saveToHistory on every bounded input
InitHist == HistInit /\ ShellOff /\ AggIdle /\ ChartIdle /\ LibIdle
NextHist == HistSave /\ UNCHANGED << shellVars, aggVars, chartVars, libVars >>
SpecHist == InitHist /\ [][NextHist]_vars

\* the response interceptor on every bounded failure
InitNet == NetInit /\ ShellOff /\ HistIdle /\ AggIdle /\ ChartIdle /\ LoadIdle
           /\ ThemeIdle /\ DocIdle /\ DebIdle /\ CardIdle
NextNet ==
    Intercept /\ UNCHANGED << shellVars, histVars, aggVars, chartVars, loadVars, themeVars,
                              docVars, debVars, cardVars >>
SpecNet == InitNet /\ [][NextNet]_vars

\* the history load effect on every bounded stored item
InitLoad == LoadInit /\ ShellOff /\ HistIdle /\ AggIdle /\ ChartIdle /\ NetIdle
            /\ ThemeIdle /\ DocIdle /\ DebIdle /\ CardIdle
NextLoad ==
    LoadEffect /\ UNCHANGED << shellVars, histVars, aggVars, chartVars, netVars, themeVars,
                               docVars, debVars, cardVars >>
SpecLoad == InitLoad /\ [][NextLoad]_vars

\* the report generators on every bounded input
InitDoc ==
    /\ DocInit /\ ShellOff /\ HistIdle /\ AggIdle /\ ChartIdle
    /\ NetIdle /\ LoadIdle /\ ThemeIdle /\ DebIdle /\ CardIdle
DocOnly ==
    UNCHANGED << shellVars, histVars, aggVars, chartVars, netVars, loadVars, themeVars,
                 debVars, cardVars >>
NextDoc ==
    \/ PdfBegin /\ DocOnly
    \/ PdfRisk /\ DocOnly
    \/ PdfMitigating /\ DocOnly
    \/ PdfQuality /\ DocOnly
    \/ ChartsPdfBegin /\ DocOnly
    \/ ChartsPdfSummary /\ DocOnly
    \/ ChartsPdfRisk /\ DocOnly
    \/ ChartsPdfMitigating /\ DocOnly
    \/ ChartsPdfQuality /\ DocOnly
    \/ ChartsPdfRecommendations /\ DocOnly
    \/ ChartsPdfCharts /\ DocOnly
    \/ FooterPass /\ DocOnly
    \/ FooterStep /\ DocOnly
    \/ DocSave /\ DocOnly
    \/ downloadExcelReport /\ DocOnly
SpecDoc == InitDoc /\ [][NextDoc]_vars

\* the Download PDF button of the shell with the generator it calls
InitReport ==
    /\ ShellOff /\ HistIdle /\ AggIdle /\ ChartIdle
    /\ NetIdle /\ LoadIdle /\ ThemeIdle /\ DocIdle /\ DebIdle /\ CardIdle
Generating == Len(pdfJobs) > 0 /\ pdfJobs[1].pc = "generate"
GeneratorOnly == Generating /\ DocOnly
NextReport ==
    \/ LoadHistory /\ ShellOnly
    \/ SetAddress /\ pdfJobs = << >> /\ ShellOnly
    \/ handleAnalyze /\ pdfJobs = << >> /\ ShellOnly
    \/ AnalyzeResolve /\ ShellOnly
    \/ StartPdf /\ ShellOnly
    \/ PdfCall /\ ChartsPdfCalled
               /\ UNCHANGED << histVars, aggVars, chartVars, netVars, loadVars,
                               themeVars, debVars, cardVars >>
    \/ ChartsPdfBegin /\ GeneratorOnly
    \/ ChartsPdfSummary /\ GeneratorOnly
    \/ ChartsPdfRisk /\ GeneratorOnly
    \/ ChartsPdfMitigating /\ GeneratorOnly
    \/ ChartsPdfQuality /\ GeneratorOnly
    \/ ChartsPdfRecommendations /\ GeneratorOnly
    \/ ChartsPdfCharts /\ GeneratorOnly
    \/ FooterPass /\ GeneratorOnly
    \/ FooterStep /\ GeneratorOnly
    \/ DocSave /\ GeneratorOnly
    \/ DrawingThrows /\ GeneratorOnly
    \/ PdfFinally /\ ChartsPdfSettled
                  /\ UNCHANGED << histVars, aggVars, chartVars, netVars, loadVars,
                                  themeVars, debVars, cardVars >>
SpecReport == InitReport /\ [][NextReport]_vars

\* debounce over every bounded schedule of calls and ticks
InitDeb ==
    /\ DebInit /\ ShellOff /\ HistIdle /\ AggIdle /\ ChartIdle
    /\ NetIdle /\ LoadIdle /\ ThemeIdle /\ DocIdle /\ CardIdle
DebOnly ==
    UNCHANGED << shellVars, histVars, aggVars, chartVars, netVars, loadVars, themeVars,
                 docVars, cardVars >>
NextDeb ==
    \/ DebouncedCall /\ DebOnly
    \/ TimerFires /\ DebOnly
    \/ Tick /\ DebOnly
SpecDeb == InitDeb /\ [][NextDeb]_vars

\* the metric cards on every bounded analysis
InitCard ==
    /\ CardInit /\ ShellOff /\ HistIdle /\ AggIdle /\ ChartIdle
    /\ NetIdle /\ LoadIdle /\ ThemeIdle /\ DocIdle /\ DebIdle
CardOnly ==
    UNCHANGED << shellVars, histVars, aggVars, chartVars, netVars, loadVars, themeVars,
                 docVars, debVars >>
NextCard ==
    \/ PdfCards /\ CardOnly
    \/ ChartsPdfCards /\ CardOnly
SpecCard == InitCard /\ [][NextCard]_vars

\* the charts' data shaping on every bounded input
InitAgg == AggInit /\ ShellOff /\ HistIdle /\ ChartIdle /\ LibIdle
NextAgg ==
    \/ wccRender /\ UNCHANGED << shellVars, histVars, chartVars, libVars >>
    \/ iocRender /\ UNCHANGED << shellVars, histVars, chartVars, libVars >>
SpecAgg == InitAgg /\ [][NextAgg]_vars

\* one chart component and its requests
InitChart == ChartStart /\ ShellOff /\ HistIdle /\ AggIdle /\ LibIdle
ChartOnly == UNCHANGED << shellVars, histVars, aggVars, libVars >>
NextChart ==
    \/ ChartMount /\ ChartOnly
    \/ applyPreset /\ ChartOnly
    \/ AddressChange /\ ChartOnly
    \/ ChartUnmount /\ ChartOnly
    \/ ChartResolve /\ ChartOnly
    \/ ChartReject /\ ChartOnly
SpecChart == InitChart /\ [][NextChart]_vars

\* one chart component whose requests all settle in the end
SettleFair == WF_vars((ChartResolve \/ ChartReject) /\ ChartOnly)
SpecChartLive == InitChart /\ [][NextChart]_vars /\ SettleFair

(***************************************************************************)
(* Properties                                                              *)
(***************************************************************************)
Min(a, b) == IF a <= b THEN a ELSE b

\* the k-th smallest element of a finite set of integers
KthOf(S, k) == CHOOSE x \in S : Cardinality({y \in S : y < x}) = k - 1

\* C1: saveToHistory puts the result at the front, leaves exactly one entry
\* with the result's address, keeps the other entries in their previous
\* relative order and keeps at most 10 entries, dropping from the end
C1_SaveToHistory ==
    hPc = "saved" =>
      LET keep == {i \in 1..Len(hHistory) : hHistory[i].address # hResult.address}
          rest == Tail(hNew)
      IN  /\ Len(hNew) >= 1
          /\ hNew[1] = hResult
          /\ Cardinality({i \in 1..Len(hNew) : hNew[i].address = hResult.address}) = 1
          /\ Len(hNew) <= HistoryCap
          /\ Len(rest) = Min(Cardinality(keep), HistoryCap - 1)
          /\ \A k \in 1..Len(rest) : rest[k] = hHistory[KthOf(keep, k)]

\* ten distinct addresses are stored and an eleventh distinct one was saved:
\* the last entry is gone
C1_Witness ==
    /\ hPc = "saved"
    /\ Len(hHistory) = HistoryCap
    /\ UniqueAddrs(hHistory)
    /\ \A i \in 1..Len(hHistory) : hHistory[i].address # hResult.address
    /\ Len(hNew) = HistoryCap
    /\ hNew[HistoryCap] = hHistory[HistoryCap - 1]
    /\ \A i \in 1..Len(hNew) : hNew[i] # hHistory[HistoryCap]

C3_NoUpdateAfterTeardown ==
    [][phase = "unmounted" /\ phase' = "unmounted"
         => UNCHANGED << analysis, scanHistory, storage, loading, error >>]_vars

\* C4: generatingPdf is true exactly while a PDF generation is running, a
\* generation cannot be started while it is true, and at most one is running
C4_PdfInProgress ==
    /\ generatingPdf <=> Len(pdfJobs) > 0
    /\ Len(pdfJobs) <= 1
    /\ generatingPdf => ~ENABLED StartPdf

\* a generation has been started, has called the report generator and has
\* not finished yet
C4_Witness ==
    /\ phase = "mounted"
    /\ generatingPdf
    /\ Len(pdfJobs) = 1
    /\ pdfJobs[1].pc = "generate"

\* C5: loading is true exactly while an analyze request is outstanding, at
\* most one is outstanding, Analyze is disabled meanwhile, and the history,
\* FAQ and approach modals and the theme toggle stay enabled
C5_AnalyzeWorkflow ==
    /\ loading <=> Len(analyzeReqs) > 0
    /\ Len(analyzeReqs) <= 1
    /\ loading => ~ENABLED handleAnalyze
    /\ phase = "mounted" /\ loading =>
         /\ ENABLED SetShowHistory
         /\ ENABLED SetShowFAQ
         /\ ENABLED SetShowApproach
         /\ ENABLED onToggleTheme

\* a request is outstanding and every modal was opened and the theme toggled
C5_Witness ==
    /\ phase = "mounted"
    /\ loading
    /\ Len(analyzeReqs) = 1
    /\ showHistory /\ showFAQ /\ showApproach /\ ~isDarkMode

\* C6: every PDF export is given the address of the analysis it exports
C6_ExportUsesScannedAddress ==
    \A i \in 1..Len(pdfJobs) : pdfJobs[i].address = pdfJobs[i].analysis.address

\* the calendar day a displayed row stands for
RowDate(row) == IF aKind = "wcc" THEN row.date ELSE row.date.date

\* C7: the sequence handed to the chart is non-decreasing by date
C7_DisplaySorted ==
    aPc = "rendered" =>
      \A i, j \in 1..Len(aDisplayData) :
         i < j => RowDate(aDisplayData[i]) <= RowDate(aDisplayData[j])

\* C8: the displayed sequence is the last min(n, N) rows of the processed
\* sequence of the n input points, N = 16 for 'week' and 12 otherwise
C8_DisplayCap ==
    aPc = "rendered" =>
      LET n == Len(aPoints)
          N == IF aGranularity = "week" THEN 16 ELSE 12
          shown == Len(aDisplayData)
      IN  /\ Len(aChartData) = n
          /\ shown = Min(n, N)
          /\ shown <= N
          /\ \A k \in 1..shown : aDisplayData[k] = aChartData[n - shown + k]

\* more points than the cap were given and only the last N are displayed
C8_Witness ==
    /\ aPc = "rendered"
    /\ aGranularity = "month"
    /\ Len(aPoints) > 16
    /\ Len(aDisplayData) = 12
    /\ aDisplayData[12] = aChartData[Len(aChartData)]

\* the sum of a field over all input points, missing amounts counting zero
RECURSIVE SumReceived(_, _)
SumReceived(points, n) ==
    IF n = 0 THEN 0 ELSE SumReceived(points, n - 1) + Coerce(points[n].received_btc)
RECURSIVE SumSent(_, _)
SumSent(points, n) ==
    IF n = 0 THEN 0 ELSE SumSent(points, n - 1) + Coerce(points[n].sent_btc)

\* C9: the totals InflowOutflowChart shows are the sums over the whole input
\* sequence, whatever the display cap, and net = inflow - outflow
C9_TotalsOverFullInput ==
    aPc = "rendered" /\ aKind = "ioc" =>
      /\ aTotals.inflow = SumReceived(aPoints, Len(aPoints))
      /\ aTotals.outflow = SumSent(aPoints, Len(aPoints))
      /\ aTotals.net = aTotals.inflow - aTotals.outflow

\* the display is truncated and the totals differ from the sums over the
\* displayed rows
C9_Witness ==
    /\ aPc = "rendered" /\ aKind = "ioc"
    /\ Len(aDisplayData) < Len(aPoints)
    /\ aTotals.inflow > SumRows(aDisplayData).inflow
    /\ aTotals.outflow > SumRows(aDisplayData).outflow
    /\ aTotals.net # SumRows(aDisplayData).net

\* the timeframe the policy prescribes for a preset key
ExpectedTimeframe(key) ==
    CASE key = "30d" -> [days |-> 30, granularity |-> "week"]
      [] key = "90d" -> [days |-> 90, granularity |-> "week"]
      [] key = "6m" -> [days |-> 180, granularity |-> "month"]
      [] key = "1y" -> [days |-> 365, granularity |-> "month"]
      [] OTHER -> [days |-> 90, granularity |-> "week"]

\* C10: applyPreset(key) sets the timeframe to the policy's pair for key
\* (week iff days <= 90, unknown keys as '90d') and activePreset to key
C10_ApplyPreset ==
    /\ \A key \in AnyKeys :
         /\ PresetTimeframe(key) = ExpectedTimeframe(key)
         /\ PresetTimeframe(key).granularity = "week" <=> PresetTimeframe(key).days <= 90
    /\ [][timeframe' # timeframe \/ activePreset' # activePreset
            => /\ activePreset' \in PresetKeys
               /\ timeframe' = ExpectedTimeframe(activePreset')]_vars

\* the '1y' preset was applied to a mounted chart
C10_Witness ==
    /\ cPhase = "mounted"
    /\ activePreset = "1y"
    /\ timeframe = [days |-> 365, granularity |-> "month"]

\* the granularity policy: week or month, week iff days <= 90
PolicyConforming(days, g) ==
    /\ g \in {"week", "month"}
    /\ g = "week" <=> days <= 90

\* C11: a chart mounted by the shell always has a policy-conforming timeframe
\* (before any preset too), and so has every time-series request it issued
C11_PolicyTimeframe ==
    cPhase \in {"init", "mounted"} =>
        /\ PolicyConforming(timeframe.days, timeframe.granularity)
        /\ \A i \in 1..Len(cReqs) :
             PolicyConforming(cReqs[i].sel.days, cReqs[i].sel.granularity)

\* C12: after a response with an empty or missing point list the chart is in
\* the no-data state: no processed rows, no displayed rows, the 'no data'
\* text, and no error
C12_EmptyResponseNoData ==
    (cPhase = "mounted" /\ ~cLoading /\ cOutcome \in {"empty", "missing"}) =>
        /\ cChartData = << >>
        /\ cDisplayData = << >>
        /\ cView = "nodata"
        /\ cError = NoError

\* C14: after a failed time-series request the chart holds the failure's
\* message in its state and shows it
C14_FailureSurfaced ==
    (cPhase = "mounted" /\ ~cLoading /\ cOutcome = "error") =>
        /\ cError \in ChartErrors
        /\ cView = "error"

\* statuses with a category of their own
MappedStatuses == {429, 400, 504, 500}

\* C13: the interceptor maps 429 / 400 / 504 / 500 to their messages, a
\* client-side timeout to the timeout message (never to the network message,
\* although it has no response), any other failure without a response to the
\* network message, and rethrows every other failure unchanged
C13_ErrorMapping ==
    nPc = "thrown" =>
        LET byStatus == nError.hasResponse /\ nError.status \in MappedStatuses
            timedOut == nError.code = "ECONNABORTED"
        IN  /\ nError.hasResponse /\ nError.status = 429
                => nThrown = NewError("Rate limit exceeded.")
            /\ nError.hasResponse /\ nError.status = 400
                => nThrown = NewError("Invalid Bitcoin address format.")
            /\ nError.hasResponse /\ nError.status = 504
                => nThrown = NewError("Analysis timeout.")
            /\ nError.hasResponse /\ nError.status = 500
                => nThrown = NewError("Internal server error.")
            /\ ~byStatus /\ timedOut
                => /\ nThrown = NewError(TimeoutMessage(isProduction))
                   /\ nThrown.message # "Network error."
            /\ ~nError.hasResponse /\ ~timedOut
                => nThrown = NewError("Network error.")
            /\ nError.hasResponse /\ ~byStatus /\ ~timedOut
                => nThrown = Rethrow(nError)

\* a client-side timeout, which has no response, was mapped to the timeout message
C13_Witness ==
    /\ nPc = "thrown"
    /\ ~nError.hasResponse
    /\ nError.code = "ECONNABORTED"
    /\ nThrown = NewError(TimeoutMessage(isProduction))

\* a stored item that is not the JSON text of a list of analysis results
Corrupted(item) ==
    \/ item.text \in {"empty", "garbage"}
    \/ item.text = "json" /\ item.json.kind # "results"

\* C15: after startup on a corrupted stored item the history is the empty
\* list and the stored key is removed
C15_CorruptedDiscarded ==
    (lPc = "mounted" /\ Corrupted(lStored)) =>
        /\ lHistory = JsonResults(<< >>)
        /\ lItem = NoItem

\* C16: the shell's theme flag starts from the persisted value when there is
\* one, and every toggle leaves the persisted value equal to the new flag
C16_ThemePersisted ==
    /\ []((phase = "init" /\ themeItem # "none") => themeItem = ThemeJson(isDarkMode))
    /\ [][(phase' = phase /\ isDarkMode' # isDarkMode)
            => themeItem' = ThemeJson(isDarkMode')]_vars

\* how many headers with the title were drawn
HeaderCount(title) ==
    Cardinality({ i \in 1..Len(dHeaders) : dHeaders[i].title = title })

\* the item was drawn
WasDrawn(section, kind) ==
    \E i \in 1..Len(dBody) : dBody[i] = Drawn(section, kind)

PdfGenerators == {"pdf", "pdfCharts"}

\* C17: each PDF generator draws the 'Risk Intelligence Assessment' header
\* exactly once per document (never before its section, once from then on,
\* also when a page break precedes the section); with no risk factors left
\* after filtering, the placeholder follows and no table
C17_RiskHeaderOnce ==
    dGen \in PdfGenerators /\ dPc # "off" =>
        /\ dPc \in {"start", "summary", "risk"}
             => HeaderCount("Risk Intelligence Assessment") = 0
        /\ dPc \notin {"start", "summary", "risk"}
             => /\ HeaderCount("Risk Intelligence Assessment") = 1
                /\ FilterRisk(dIn.risk) = << >>
                     => /\ WasDrawn("risk", "placeholder")
                        /\ ~WasDrawn("risk", "table")

\* a saved report without risk factors whose Risk Intelligence header
\* follows a page break
C17_Witness ==
    /\ dGen = "pdfCharts" /\ dSaved
    /\ FilterRisk(dIn.risk) = << >>
    /\ \E i \in 1..Len(dHeaders) :
         /\ dHeaders[i] = HeaderAt("Risk Intelligence Assessment", 2, LAYOUT.margin)
    /\ WasDrawn("risk", "placeholder")

\* C18: every generated report has the risk factors, the positive indicators
\* / mitigating factors and the data limitations / data quality section,
\* whatever the analysis holds
C18_AllSectionsPresent ==
    dSaved =>
        /\ dGen \in PdfGenerators
             => /\ HeaderCount("Risk Intelligence Assessment") > 0
                /\ HeaderCount("Mitigating Factors") > 0
                /\ HeaderCount("Data Quality Assessment")
                     + HeaderCount("Data Quality & Methodology") > 0
        /\ dGen = "xlsx"
             => \A sheet \in {"Risk Factors", "Positive Indicators", "Data Limitations"} :
                  \E i \in 1..Len(dSheets) : dSheets[i] = sheet

\* the largest near-bottom threshold the generators compare the cursor with
NearBottom == [pdfCharts |-> 250]

\* C19: every section header is drawn with the cursor at most at the
\* near-bottom threshold or at the top margin of a fresh page, and never in
\* or below the footer band
C19_HeaderAboveFooter ==
    \A i \in 1..Len(dHeaders) :
        /\ dHeaders[i].y <= NearBottom.pdfCharts \/ dHeaders[i].y = LAYOUT.margin
        /\ dHeaders[i].at <= LAYOUT.pageHeight - LAYOUT.footerHeight

\* C20: footers are drawn only once the page count is final, and a saved PDF
\* has on every page i of its N pages exactly one footer, 'Page i of N'
C20_FooterSecondPass ==
    dGen \in PdfGenerators =>
        /\ dFooters # << >> => dPc \in {"stamping", "done"}
        /\ dPc \in {"stamping", "done"} => dPages = dLoop.total
        /\ dSaved =>
             /\ Len(dFooters) = dPages
             /\ \A i \in 1..dPages :
                  dFooters[i] = [page |-> i, pageNum |-> i, totalPages |-> dPages]

\* a saved PDF of at least three pages
C20_Witness ==
    /\ dGen = "pdfCharts" /\ dSaved
    /\ dPages >= 3
    /\ Len(dFooters) = dPages

\* C24: in WalletCredibilityChart a request whose effect was cleaned up is
\* cancelled: no request of a cleaned-up effect is still outstanding
C24_CleanupCancelsRequest ==
    cKind = "wcc" => \A i \in 1..Len(cReqs) : cReqs[i].mounted

\* C25: data is only ever stored from a request issued for the selection
\* current at that moment, and once every request has settled, data that the
\* chart draws or that it holds after the current selection's response
\* arrived is the response for the current selection
C25_NoStaleData ==
    /\ []((/\ cPhase = "mounted" /\ cReqs = << >> /\ cData.present
           /\ cOutcome \in {"points", "empty", "missing"} \/ cView = "chart")
            => cData.from = Selection(cAddress, timeframe))
    /\ [][cData' # cData => cData'.from = Selection(cAddress, timeframe)]_vars

\* C29: in a mounted chart with no request outstanding a preset can be applied
C29_PresetAlwaysAvailable ==
    (cPhase = "mounted" /\ cReqs = << >> /\ ~cLoading /\ cIssued < MaxRequests)
        => ENABLED applyPreset

\* C28: if every request settles, a mounted chart's loading flag is false
\* from some point on after the last address or preset change
C28_LoadingEnds ==
    <>[](cPhase = "mounted" => ~cLoading)

\* a mounted chart that settled after a change of its selection
C28_Witness ==
    /\ cPhase = "mounted"
    /\ cIssued >= 2
    /\ cReqs = << >>
    /\ ~cLoading

\* the entries of a history
Entries(h) == { h[i] : i \in 1..Len(h) }

\* the list a stored item stands for, an absent key counting as the empty list
StoredList(item) == IF item.present /\ item.parses THEN item.json ELSE << >>

\* C26: while the shell is mounted the history, in memory and persisted, gains
\* no entry other than the result just analysed; so an entry removed by
\* clearHistory comes back only by a new analysis of its address
C26_ClearedStaysCleared ==
    [][(phase = "mounted" /\ phase' = "mounted") =>
          /\ Entries(scanHistory') \subseteq Entries(scanHistory) \cup {analysis'}
          /\ Entries(StoredList(storage')) \subseteq Entries(scanHistory) \cup {analysis'}]_vars

\* C27: in the mounted shell the persisted history equals the history in
\* memory, and a failed analysis, a history selection and the modals leave
\* both unchanged
C27_PersistedEqualsMemory ==
    /\ [](phase = "mounted" => StoredList(storage) = scanHistory)
    /\ [][(AnalyzeReject \/ SelectHistory \/ SetShowHistory \/ CloseError)
            => UNCHANGED << scanHistory, storage >>]_vars

\* a fresh result was analysed and saved on top of a loaded history
C27_Witness ==
    /\ phase = "mounted" /\ ~loading
    /\ analysis.ver = FreshVer
    /\ Len(scanHistory) >= 2
    /\ scanHistory[1] = analysis
    /\ storage = Stringify(scanHistory)

\* C21: a generation in which a drawing call threw saves no document; when
\* the click handler then ends, the in-progress flag is false, the button can
\* be used again and the failure is shown to the user
C21_AbortSurfaced ==
    /\ [](dPc = "aborted" => ~dSaved)
    /\ [][(dPc = "aborted" /\ dPc' = "off")
            => /\ ~generatingPdf'
               /\ pdfJobs' = << >>
               /\ error' # NoError]_vars

\* a chart section of the document: its header or its image
ChartSectionDrawn(title, section) ==
    HeaderCount(title) > 0 \/ WasDrawn(section, "image")

\* C22: in downloadPdfReportWithCharts a chart surface that is not on the page
\* gets neither header nor image, and a failing capture does not keep the
\* generator from stamping the footers and saving
C22_AbsentChartSkipped ==
    /\ []((dGen = "pdfCharts" /\ dPc \in {"footers", "stamping", "done"}) =>
            /\ ~dIn.charts.balance
                  => ~ChartSectionDrawn("Transaction Flow Analysis", "flow")
            /\ ~dIn.charts.inflow
                  => ~ChartSectionDrawn("Inflow vs Outflow Analysis", "inflow"))
    /\ [][(dGen = "pdfCharts" /\ dPc = "charts" /\ dPc' # dPc) => dPc' = "footers"]_vars
    /\ []((dGen = "pdfCharts" /\ dPc = "done") => dSaved)

\* the calls so far form one burst: each follows the previous one by less
\* than the delay
OneBurst ==
    \A i \in 2..Len(bCalls) : bCalls[i].at - bCalls[i - 1].at < bDelay

LastCall == bCalls[Len(bCalls)]

\* C23: during a burst func is not invoked; once the delay has passed after
\* the last call of the burst, func has been invoked exactly once, at that
\* moment and with the arguments of the last call; and func is never invoked
\* less than the delay after a call already made
C23_TrailingCallOnce ==
    /\ []((OneBurst /\ bCalls # << >>) =>
            /\ Len(bInvoked) <= 1
            /\ bNow < LastCall.at + bDelay => bInvoked = << >>
            /\ bNow > LastCall.at + bDelay => Len(bInvoked) = 1
            /\ \A j \in 1..Len(bInvoked) :
                 /\ bInvoked[j].at = LastCall.at + bDelay
                 /\ bInvoked[j].args = LastCall.args)
    /\ [][bInvoked' # bInvoked =>
            \A i \in 1..Len(bCalls) : bCalls[i].at + bDelay <= bNow]_vars

\* a burst of three calls with different arguments, answered by one invocation
C23_Witness ==
    /\ OneBurst /\ Len(bCalls) = MaxCalls /\ bDelay > 1
    /\ bCalls[2].at > bCalls[1].at
    /\ bCalls[1].args # LastCall.args
    /\ Len(bInvoked) = 1
    /\ bNow > LastCall.at + bDelay

\* the ordered risk levels MINIMAL < LOW < MEDIUM < HIGH < CRITICAL
LevelOrder ==
    << << "M", "I", "N", "I", "M", "A", "L" >>, << "L", "O", "W" >>,
       << "M", "E", "D", "I", "U", "M" >>, << "H", "I", "G", "H" >>,
       << "C", "R", "I", "T", "I", "C", "A", "L" >> >>

LevelRank(level) == CHOOSE r \in 1..Len(LevelOrder) : LevelOrder[r] = level
Ordered(level) == \E r \in 1..Len(LevelOrder) : LevelOrder[r] = level

\* success < warning < danger
Severity(color) == CASE color = "success" -> 1 [] color = "warning" -> 2
                     [] color = "danger" -> 3

\* C30: the risk level card of a report is never less severe in colour than
\* the card either generator draws for a lower risk level
C30_LevelColorMonotone ==
    (kPc = "done" /\ Ordered(kIn.risk_level)) =>
       \A lower \in RiskLevels :
          (Ordered(lower) /\ LevelRank(lower) < LevelRank(kIn.risk_level))
             => Severity(levelColor(lower)) <= Severity(kCards[2].color)

====
